---- MODULE Spec2Model ----
(***************************************************************************)
(* Mount-session lifecycle of the Veeam backup-API client                  *)
(* (src/src/services/veeam_api.py), the mount / unmount routes             *)
(* (src/src/routes/veeam_routes.py) and the startup reconciliation block   *)
(* (src/src/main.py).                                                      *)
(*                                                                         *)
(* Two client objects exist in a running process: the one main.py builds   *)
(* at startup (handed to the extraction routes) and the one the /config    *)
(* route builds for the veeam routes.  Each has its own mount_sessions     *)
(* dictionary.  A Python dict iterates in insertion order, so a dictionary *)
(* is modelled as a sequence of entries with distinct ids.                 *)
(*                                                                         *)
(* The backup server is the environment: it holds sessions, answers or     *)
(* fails every HTTP request, and starts / stops / drops sessions on its    *)
(* own (auto-unmount).                                                     *)
(*                                                                         *)
(* The extraction job service (src/src/services/extraction_job_service.py) *)
(* and the ML job route are modelled over the same database; each has its  *)
(* own specification further down.                                         *)
(***************************************************************************)
EXTENDS Integers, Sequences, FiniteSets, TLC

VARIABLES
    srv,             \* server: session id -> [backupId, state, type]
    issued,          \* server: how many session ids it has handed out
    mount_sessions,  \* client name -> ordered dict of tracked sessions
    configured,      \* veeam_routes.veeam_api is not None
    status,          \* VeeamBackup.status, per backup
    mount_point,     \* VeeamBackup.mount_point, per backup
    os_type,         \* VeeamBackup.os_type, per backup
    extraction_jobs, \* ExtractionJob rows, by id
    executions,      \* ExtractionJobExecution rows, by id
    active_jobs,     \* ExtractionJobService.active_jobs: job id -> execution id
    threads,         \* per execution: the request and the background thread
    ml_jobs,         \* MLJob rows, by id
    last             \* the operation performed by the last step and its outcome

jobVars == <<extraction_jobs, executions, active_jobs, threads, ml_jobs>>

vars == <<srv, issued, mount_sessions, configured, status, mount_point, os_type,
          extraction_jobs, executions, active_jobs, threads, ml_jobs, last>>

(***************************************************************************)
(* Bounds and value domains                                                *)
(***************************************************************************)
MaxSessions == 2

SessionIds == 1 .. MaxSessions

\* VeeamBackup.backup_id values of the rows in the database (unique, not null)
BackupIds == {"b1", "b2"}

\* Python None / a key the server's JSON does not carry
None == "None"

NoSid == 0

Clients == {"routes", "main"}

SessionStates == {"Working", "Stopped"}

SessionTypes == {"FileLevelRestore", "PublishBackupContentViaMount"}

(***************************************************************************)
(* Mount-point strings.  Each format the code builds is a tagged value:    *)
(*   flr_folder  \\172.21.234.6\VeeamFLR\{machineName}_{sid[:8]}           *)
(*   flr_id      \\172.21.234.6\VeeamFLR\{sid}                             *)
(*   iscsi       iSCSI session {sid}                                       *)
(*   session_id  {sid}                                                     *)
(*   tmp         /tmp/veeam_mounts/{backup_id}                             *)
(***************************************************************************)
NoMount == [kind |-> "none", sid |-> NoSid, bid |-> None]

FlrFolderPath(sid) == [kind |-> "flr_folder", sid |-> sid, bid |-> None]

FlrIdPath(sid) == [kind |-> "flr_id", sid |-> sid, bid |-> None]

IscsiPath(sid) == [kind |-> "iscsi", sid |-> sid, bid |-> None]

SessionIdPath(sid) == [kind |-> "session_id", sid |-> sid, bid |-> None]

TmpPath(bid) == [kind |-> "tmp", sid |-> NoSid, bid |-> bid]

(***************************************************************************)
(* Ordered dictionaries (Python dict): a sequence of entries, unique ids   *)
(***************************************************************************)
Keys(d) == {d[i].id : i \in 1 .. Len(d)}

Has(d, sid) == sid \in Keys(d)

Get(d, sid) == d[CHOOSE i \in 1 .. Len(d) : d[i].id = sid]

\* d[sid] = e : an existing key keeps its position, a new key goes last
Put(d, e) ==
    IF Has(d, e.id)
    THEN [i \in 1 .. Len(d) |-> IF d[i].id = e.id THEN e ELSE d[i]]
    ELSE Append(d, e)

\* del d[sid]
Del(d, sid) == SelectSeq(d, LAMBDA e : e.id # sid)

EmptyDict == << >>

Range(q) == {q[k] : k \in 1 .. Len(q)}

\* Entry of mount_sessions.  state = None: the entry has no 'state' key.
Entry(sid, bid, mp, mt, st) ==
    [id |-> sid, backup_id |-> bid, mount_point |-> mp, mount_type |-> mt, state |-> st]

(***************************************************************************)
(* The record of the last step.  calls: the POST requests the operation    *)
(* sent to the server, in order; contacted: it sent some request; list:    *)
(* the session list it fetched; had, before, tracked, mount_type,          *)
(* had_working_flr: what held when the operation began; flr, second: how   *)
(* the FLR request and the second mount mechanism ended.                   *)
(***************************************************************************)
Blank ==
    [op |-> "init", client |-> "routes", bid |-> None, sid |-> NoSid,
     code |-> 0, ret |-> "none", contacted |-> FALSE, calls |-> << >>,
     list |-> << >>, had |-> {},
     tracked |-> FALSE, remote_ok |-> FALSE, mount_type |-> None,
     had_working_flr |-> FALSE, flr |-> "none", second |-> "none",
     before |-> {}, job |-> 0, exec |-> 0, raised |-> "no", algorithm |-> None]

Op(name) == [Blank EXCEPT !.op = name]

(***************************************************************************)
(* get_active_sessions                                                     *)
(***************************************************************************)
\* the ids of S in the order the server lists them (ord: a permutation)
RECURSIVE Listed(_, _, _)
Listed(S, ord, i) ==
    IF i > MaxSessions THEN << >>
    ELSE (IF ord[i] \in S THEN <<ord[i]>> ELSE << >>) \o Listed(S, ord, i + 1)

OfType(s, t) == {i \in DOMAIN s : s[i].type = t}

FlrInfo(s, i) ==
    [id |-> i, type |-> s[i].type, state |-> s[i].state, backupId |-> s[i].backupId,
     mount_type |-> "FLR", mount_point |-> FlrIdPath(i),
     is_ready |-> (s[i].state = "Working")]

DiInfo(s, i) ==
    [id |-> i, type |-> s[i].type, state |-> s[i].state, backupId |-> s[i].backupId,
     mount_type |-> "DataIntegration", mount_point |-> IscsiPath(i),
     is_ready |-> (s[i].state = "Working")]

AllSessions(s, ord) ==
    LET flr == Listed(OfType(s, "FileLevelRestore"), ord, 1)
        di  == Listed(OfType(s, "PublishBackupContentViaMount"), ord, 1)
    IN  [k \in 1 .. Len(flr) |-> FlrInfo(s, flr[k])] \o
        [k \in 1 .. Len(di) |-> DiInfo(s, di[k])]

\* fetch: how the server answers the two GET /api/v1/sessions requests.
\*   "failed"     either request raises a RequestException: the method
\*                returns the empty list
\*   "malformed"  a body whose 'data' is no list: the exception leaves the
\*                method
FetchOutcomes == {"ok", "failed", "malformed"}

GetActiveSessions(s, fetch, ord) ==
    CASE fetch = "failed" -> [raised |-> FALSE, list |-> << >>]
      [] fetch = "malformed" -> [raised |-> TRUE, list |-> << >>]
      [] OTHER -> [raised |-> FALSE, list |-> AllSessions(s, ord)]

(***************************************************************************)
(* reconcile_mount_state                                                   *)
(***************************************************************************)
ListIds(l) == {l[k].id : k \in 1 .. Len(l)}

\* mutant: the orphaned sessions are kept
RemoveOrphansKeepsAll(d, active) == d

RemoveOrphans(d, active) == SelectSeq(d, LAMBDA e : e.id \in active)

UpdateFromServer(d, session) ==
    IF Has(d, session.id)
    THEN Put(d, [Get(d, session.id) EXCEPT !.state = session.state,
                                           !.mount_point = session.mount_point,
                                           !.mount_type = session.mount_type])
    ELSE Put(d, Entry(session.id, session.backupId, session.mount_point,
                      session.mount_type, session.state))

RECURSIVE UpdateAll(_, _)
UpdateAll(d, l) ==
    IF l = << >> THEN d ELSE UpdateAll(UpdateFromServer(d, Head(l)), Tail(l))

\* got: the result of GetActiveSessions
ReconcileMountState(d, got) ==
    IF got.raised
    THEN [dict |-> d, ret |-> "error"]
    ELSE [dict |-> UpdateAll(RemoveOrphans(d, ListIds(got.list)), got.list),
          ret |-> "ok"]

(***************************************************************************)
(* The server acting on its own                                            *)
(***************************************************************************)
\* a session the server starts on its own belongs to one of the backups
SrvRecs == [backupId : BackupIds, state : SessionStates, type : SessionTypes]

\* a session whose JSON may lack 'backupId'
SrvRecsAny == [backupId : BackupIds \cup {None}, state : SessionStates, type : SessionTypes]

\* Session ids are never reused: the server hands out the next one.
FreeIds(n) == IF n < MaxSessions THEN {n + 1} ELSE {}

WithSession(s, i, r) == [j \in DOMAIN s \cup {i} |-> IF j = i THEN r ELSE s[j]]

WithoutSession(s, i) == [j \in DOMAIN s \ {i} |-> s[j]]

ServerStart ==
    /\ \E i \in FreeIds(issued), r \in SrvRecs :
         /\ srv' = WithSession(srv, i, r)
         /\ issued' = i
    /\ last' = Op("server")
    /\ UNCHANGED <<mount_sessions, configured, status, mount_point, os_type>>

ServerStop ==
    /\ \E i \in DOMAIN srv :
         /\ srv[i].state = "Working"
         /\ srv' = [srv EXCEPT ![i].state = "Stopped"]
    /\ last' = Op("server")
    /\ UNCHANGED <<issued, mount_sessions, configured, status, mount_point, os_type>>

ServerDrop ==
    /\ \E i \in DOMAIN srv : srv' = WithoutSession(srv, i)
    /\ last' = Op("server")
    /\ UNCHANGED <<issued, mount_sessions, configured, status, mount_point, os_type>>

(***************************************************************************)
(* Creating an FLR session: POST /api/v1/restore/flr                       *)
(***************************************************************************)
\* The JSON body of a created session carries the id under 'sessionId',
\* under 'id', or under neither key.
FlrSession(shape, i) ==
    [id |-> IF shape = "id" THEN i ELSE NoSid,
     sessionId |-> IF shape = "sessionId" THEN i ELSE NoSid,
     session_id |-> NoSid, mount_type |-> None]

\* flr_session.get('sessionId') or flr_session.get('id')
SessionIdOf(flr_session) ==
    IF flr_session.sessionId # NoSid THEN flr_session.sessionId ELSE flr_session.id

CreatedShapes == {"sessionId", "id", "neither"}

\* the session the server starts for a create request
Started(s, i, srvBid) ==
    WithSession(s, i, [backupId |-> srvBid, state |-> "Working", type |-> "FileLevelRestore"])

NoResult == FlrSession("neither", NoSid)

\* mount_windows_backup_flr.  create: a shape (2xx answer), "failed" (a
\* RequestException, re-raised as VeeamAPIError) or "bad_body" (any other
\* exception, which the method does not catch).
MountWindowsBackupFlr(d, s, rp_id, create, i, srvBid) ==
    IF create \in CreatedShapes
    THEN LET flr_session == FlrSession(create, i)
             sid == SessionIdOf(flr_session)
         IN  [dict |-> IF sid # NoSid
                       THEN Put(d, Entry(sid, rp_id, FlrFolderPath(sid), "FLR", None))
                       ELSE d,
              srv |-> Started(s, i, srvBid), raised |-> "no",
              result |-> flr_session]
    ELSE [dict |-> d, srv |-> s,
          raised |-> IF create = "failed" THEN "VeeamAPIError" ELSE "Exception",
          result |-> NoResult]

\* create_flr_session_for_restore_point.  create: a shape (status 201),
\* "rejected" (any other status) or "failed" (a RequestException); both
\* failures raise VeeamAPIError.
CreateFlrSessionForRestorePoint(d, s, rp_id, create, i, srvBid) ==
    IF create \in CreatedShapes
    THEN LET flr_session == FlrSession(create, i)
             sid == SessionIdOf(flr_session)
         IN  [dict |-> IF sid # NoSid
                       THEN Put(d, Entry(sid, rp_id, FlrFolderPath(sid), "FLR", None))
                       ELSE d,
              srv |-> Started(s, i, srvBid), raised |-> "no",
              result |-> flr_session]
    ELSE [dict |-> d, srv |-> s, raised |-> "VeeamAPIError",
          result |-> NoResult]

(***************************************************************************)
(* mount_backup (client)                                                   *)
(***************************************************************************)
\* the restore point the client picks for a backup: restore_points[0]['id']
RestorePointOf(bid) == bid

\* "none": the request failed, the list is empty or its first element has no
\* 'id'; each raises inside mount_backup before any session is created
RestorePointOutcomes == {"ok", "none"}

\* the first listed FLR session of the backup in state Working, or 0
ExistingSession(l, bid) ==
    LET hits == {k \in 1 .. Len(l) : /\ l[k].backupId = bid
                                     /\ l[k].mount_type = "FLR"
                                     /\ l[k].state = "Working"}
    IN  IF hits = {} THEN 0 ELSE CHOOSE k \in hits : \A m \in hits : k <= m

\* the dict mount_backup returns: it has 'session_id' and no 'id' key
MountResult(sid) ==
    [id |-> NoSid, sessionId |-> NoSid, session_id |-> sid, mount_type |-> "FLR"]

\* Every exception inside mount_backup is re-raised as VeeamAPIError.
MountBackup(d, s, bid, got, rp, create, i, srvBid) ==
    LET k == ExistingSession(got.list, bid) IN
    IF got.raised
    THEN [dict |-> d, srv |-> s, raised |-> "VeeamAPIError", result |-> NoResult,
          calls |-> << >>, reused |-> FALSE]
    ELSE IF k # 0
    THEN LET sid == got.list[k].id
         IN  [dict |-> Put(d, Entry(sid, bid, FlrFolderPath(sid), "FLR", None)),
              srv |-> s, raised |-> "no", result |-> MountResult(sid),
              calls |-> << >>, reused |-> TRUE]
    ELSE IF rp # "ok"
    THEN [dict |-> d, srv |-> s, raised |-> "VeeamAPIError", result |-> NoResult,
          calls |-> << >>, reused |-> FALSE]
    ELSE LET made == CreateFlrSessionForRestorePoint(d, s, RestorePointOf(bid),
                                                     create, i, srvBid)
             sid == SessionIdOf(made.result)
             calls == <<"POST flr">>
         IN  IF made.raised # "no"
             THEN [dict |-> made.dict, srv |-> made.srv, raised |-> "VeeamAPIError",
                   result |-> NoResult, calls |-> calls, reused |-> FALSE]
             ELSE IF sid # NoSid
             THEN [dict |-> Put(made.dict,
                                Entry(sid, bid, FlrFolderPath(sid), "FLR", None)),
                   srv |-> made.srv, raised |-> "no", result |-> MountResult(sid),
                   calls |-> calls, reused |-> FALSE]
             ELSE [dict |-> made.dict, srv |-> made.srv, raised |-> "VeeamAPIError",
                   result |-> NoResult, calls |-> calls, reused |-> FALSE]

(***************************************************************************)
(* unmount_backup (client)                                                 *)
(***************************************************************************)
UnmountOutcomes == {"ok", "failed", "crashed"}

\* mutant: a failed request counts as an unmount
TryUnmountIgnoresFailure(outcome) ==
    CASE outcome = "crashed" -> "raised" [] OTHER -> "True"

\* _try_unmount_flr / _try_unmount_data_integration: True on a 2xx answer,
\* False on a RequestException; any other exception ("crashed") propagates.
TryUnmount(outcome) ==
    CASE outcome = "ok" -> "True" [] outcome = "failed" -> "False" [] OTHER -> "raised"

\* mutant: the recorded mount type is ignored
RecordedMountTypeAlwaysFlr(d, sid) == "FLR"

\* mount_info.get('mount_type', 'FLR') of a tracked session
RecordedMountType(d, sid) == Get(d, sid).mount_type

\* flrOut, diOut: how the server answers each endpoint if it is called
UnmountBackup(d, sid, flrOut, diOut) ==
    IF ~Has(d, sid)
    THEN IF TryUnmount(flrOut) = "True"
         THEN [dict |-> d, ret |-> TRUE, calls |-> <<"POST flr unmount">>,
               remote_ok |-> TRUE]
         ELSE IF TryUnmount(flrOut) = "raised"
         THEN [dict |-> d, ret |-> FALSE, calls |-> <<"POST flr unmount">>,
               remote_ok |-> FALSE]
         ELSE [dict |-> d, ret |-> (TryUnmount(diOut) = "True"),
               calls |-> <<"POST flr unmount", "POST di unpublish">>,
               remote_ok |-> (diOut = "ok")]
    ELSE LET mount_type == RecordedMountType(d, sid)
             out == IF mount_type = "FLR" THEN flrOut ELSE diOut
             success == (TryUnmount(out) = "True")
         IN  [dict |-> IF success THEN Del(d, sid) ELSE d,
              ret |-> success,
              calls |-> IF mount_type = "FLR" THEN <<"POST flr unmount">>
                                              ELSE <<"POST di unpublish">>,
              remote_ok |-> (out = "ok")]

\* The server ends a session when it answers an unmount request with 2xx;
\* it answers 2xx only for a session of that kind which it has.
CanUnmount(s, sid, type) == sid \in DOMAIN s /\ s[sid].type = type

Unmounted(s, sid, calls, ret) ==
    IF ret /\ sid \in DOMAIN s THEN WithoutSession(s, sid) ELSE s

(***************************************************************************)
(* Client operations as steps.  Each answer of the server is chosen only   *)
(* where the code reaches the request.                                     *)
(***************************************************************************)
Identity == [i \in SessionIds |-> i]

\* the orders in which the server may list its sessions
Orders(s) == IF Cardinality(DOMAIN s) < 2 THEN {Identity} ELSE Permutations(SessionIds)

\* The server lists its sessions oldest first, except where AnyOrder is used.
Fetches(s) == {[fetch |-> f, ord |-> Identity] : f \in FetchOutcomes}

FetchesAnyOrder(s) ==
    {[fetch |-> f, ord |-> Identity] : f \in FetchOutcomes \ {"ok"}} \cup
    {[fetch |-> "ok", ord |-> o] : o \in Orders(s)}

Fetched(s, f) == GetActiveSessions(s, f.fetch, f.ord)

Reconcile(c) ==
    \E f \in Fetches(srv) :
      \E got \in {Fetched(srv, f)} :
      \E res \in {ReconcileMountState(mount_sessions[c], got)} :
          /\ mount_sessions' = [mount_sessions EXCEPT ![c] = res.dict]
          /\ last' = [Op("reconcile") EXCEPT !.client = c, !.ret = res.ret,
                                             !.contacted = TRUE,
                                             !.list = got.list,
                                             !.had = Keys(mount_sessions[c])]
          /\ UNCHANGED <<srv, issued, configured, status, mount_point, os_type>>

\* a create request: the answer, the id and the backupId the server gives
NotCreated(answers) == {[create |-> a, i |-> NoSid, srvBid |-> None] : a \in answers}

Created(n, bid) ==
    {[create |-> a, i |-> i, srvBid |-> b] :
        a \in CreatedShapes, i \in FreeIds(n), b \in {bid}}

\* the answers mount_backup can get after a session list 'got'
MountAnswers(got, n, bid) ==
    IF got.raised \/ ExistingSession(got.list, bid) # 0
    THEN {[rp |-> "ok", c |-> x] : x \in NotCreated({"failed"})}
    ELSE {[rp |-> r, c |-> x] :
            r \in RestorePointOutcomes \ {"ok"}, x \in NotCreated({"failed"})} \cup
         {[rp |-> "ok", c |-> x] :
            x \in NotCreated({"rejected", "failed"}) \cup Created(n, bid)}

HasWorkingFlr(s, bid) ==
    \E i \in DOMAIN s : /\ s[i].backupId = bid
                        /\ s[i].type = "FileLevelRestore"
                        /\ s[i].state = "Working"

ClientMount(c) ==
    \E bid \in BackupIds, f \in Fetches(srv) :
      \E got \in {Fetched(srv, f)} :
      \E a \in MountAnswers(got, issued, bid) :
      \E res \in {MountBackup(mount_sessions[c], srv, bid, got,
                               a.rp, a.c.create, a.c.i, a.c.srvBid)} :
            /\ mount_sessions' = [mount_sessions EXCEPT ![c] = res.dict]
            /\ srv' = res.srv
            /\ issued' = IF a.c.i = NoSid THEN issued ELSE a.c.i
            /\ last' = [Op("mount_backup") EXCEPT
                          !.client = c, !.bid = bid,
                          !.sid = res.result.session_id,
                          !.ret = IF res.raised = "no" THEN "ok" ELSE res.raised,
                          !.contacted = TRUE,
                          !.calls = res.calls,
                          !.had_working_flr = HasWorkingFlr(srv, bid)]
            /\ UNCHANGED <<configured, status, mount_point, os_type>>

\* the answers unmount_backup can get for a session id
UnmountAnswers(d, s, sid) ==
    LET flr == IF CanUnmount(s, sid, "FileLevelRestore")
               THEN UnmountOutcomes ELSE UnmountOutcomes \ {"ok"}
        di  == IF CanUnmount(s, sid, "PublishBackupContentViaMount")
               THEN UnmountOutcomes ELSE UnmountOutcomes \ {"ok"}
    IN  IF Has(d, sid)
        THEN IF Get(d, sid).mount_type = "FLR"
             THEN {[flr |-> x, di |-> "failed"] : x \in flr}
             ELSE {[flr |-> "failed", di |-> x] : x \in di}
        ELSE {[flr |-> x, di |-> "failed"] : x \in flr \ {"failed"}} \cup
             {[flr |-> "failed", di |-> x] : x \in di}

UnmountArgs(d, n) == Keys(d) \cup (1 .. n)

ClientUnmount(c) ==
    \E sid \in UnmountArgs(mount_sessions[c], issued) :
      \E a \in UnmountAnswers(mount_sessions[c], srv, sid) :
      \E res \in {UnmountBackup(mount_sessions[c], sid, a.flr, a.di)} :
            /\ mount_sessions' = [mount_sessions EXCEPT ![c] = res.dict]
            /\ srv' = Unmounted(srv, sid, res.calls, res.ret)
            /\ last' = [Op("unmount_backup") EXCEPT
                          !.client = c, !.sid = sid,
                          !.ret = IF res.ret THEN "True" ELSE "False",
                          !.contacted = TRUE,
                          !.calls = res.calls,
                          !.tracked = Has(mount_sessions[c], sid),
                          !.remote_ok = res.remote_ok,
                          !.flr = IF "POST flr unmount" \in Range(res.calls)
                                  THEN a.flr ELSE "none",
                          !.mount_type = IF Has(mount_sessions[c], sid)
                                         THEN Get(mount_sessions[c], sid).mount_type
                                         ELSE None]
            /\ UNCHANGED <<issued, configured, status, mount_point, os_type>>

(***************************************************************************)
(* POST /config: a new client object replaces veeam_routes.veeam_api       *)
(***************************************************************************)
Configure ==
    /\ mount_sessions' = [mount_sessions EXCEPT !["routes"] = EmptyDict]
    /\ configured' = TRUE
    /\ last' = Op("configure")
    /\ UNCHANGED <<srv, issued, status, mount_point, os_type>>

(***************************************************************************)
(* POST /backups/<id>/mount                                                *)
(***************************************************************************)
\* mount_session.get('id'), then the value stored in backup.mount_point
RouteMountPoint(mount_session, b) ==
    IF mount_session.id # NoSid THEN SessionIdPath(mount_session.id) ELSE TmpPath(b)

\* the session a mount result stands for, whichever key carries it
MountedSession(mount_session) ==
    IF mount_session.session_id # NoSid
    THEN mount_session.session_id
    ELSE SessionIdOf(mount_session)

FlrAnswers(n, b) ==
    NotCreated({"failed", "bad_body"}) \cup Created(n, b)

\* mutant: the status of the backup is not looked at
AlreadyMountedNever(st) == FALSE

\* backup.status == 'mounted'
AlreadyMounted(st) == st = "mounted"

\* the route answers 400: nothing is asked of the server, nothing changes
MountRejected(b) ==
    /\ ~configured \/ AlreadyMounted(status[b])
    /\ last' = [Op("mount_route") EXCEPT !.bid = b, !.code = 400]
    /\ UNCHANGED <<srv, issued, mount_sessions, configured, status, mount_point, os_type>>

\* the commit after a mount that did not raise
MountCommitted(b, res, reported, flr, second, calls) ==
    /\ mount_sessions' = [mount_sessions EXCEPT !["routes"] = res.dict]
    /\ srv' = res.srv
    /\ status' = [status EXCEPT ![b] = "mounted"]
    /\ mount_point' = [mount_point EXCEPT ![b] = RouteMountPoint(res.result, b)]
    /\ last' = [Op("mount_route") EXCEPT
                  !.bid = b, !.code = 200, !.mount_type = reported,
                  !.sid = MountedSession(res.result), !.flr = flr,
                  !.second = second, !.contacted = TRUE, !.calls = calls]

\* mutant: the backup is marked mounted although the mount raised
MountFailedMarksMounted(b, res, flr, second, calls) ==
    /\ mount_sessions' = [mount_sessions EXCEPT !["routes"] = res.dict]
    /\ srv' = res.srv
    /\ last' = [Op("mount_route") EXCEPT
                  !.bid = b, !.code = 500, !.flr = flr, !.second = second,
                  !.contacted = TRUE, !.calls = calls]
    /\ status' = [status EXCEPT ![b] = "mounted"]
    /\ mount_point' = [mount_point EXCEPT ![b] = TmpPath(b)]

\* the route answers 500: the backup row is not touched
MountFailed(b, res, flr, second, calls) ==
    /\ mount_sessions' = [mount_sessions EXCEPT !["routes"] = res.dict]
    /\ srv' = res.srv
    /\ last' = [Op("mount_route") EXCEPT
                  !.bid = b, !.code = 500, !.flr = flr, !.second = second,
                  !.contacted = TRUE, !.calls = calls]
    /\ UNCHANGED <<status, mount_point>>

\* veeam_api.mount_backup(backup.backup_id, None), reported as DataIntegration
MountSecond(b, flr, callsBefore) ==
    \E f \in Fetches(srv) :
    \E got \in {Fetched(srv, f)} :
    \E a \in MountAnswers(got, issued, b) :
    \E res \in {MountBackup(mount_sessions["routes"], srv, b, got,
                            a.rp, a.c.create, a.c.i, a.c.srvBid)} :
      /\ issued' = IF a.c.i = NoSid \/ res.srv = srv THEN issued ELSE a.c.i
      /\ IF res.raised = "no"
         THEN MountCommitted(b, res, "DataIntegration", flr, "ok",
                             callsBefore \o res.calls)
         ELSE MountFailed(b, res, flr, res.raised, callsBefore \o res.calls)

MountWindows(b) ==
    \E a \in FlrAnswers(issued, b) :
    \E res \in {MountWindowsBackupFlr(mount_sessions["routes"], srv, b,
                                      a.create, a.i, a.srvBid)} :
      CASE res.raised = "no" ->
             /\ issued' = a.i
             /\ MountCommitted(b, res, "FLR", "ok", "none", <<"POST flr">>)
        [] res.raised = "VeeamAPIError" ->
             MountSecond(b, "VeeamAPIError", <<"POST flr">>)
        [] OTHER ->
             /\ issued' = issued
             /\ MountFailed(b, res, "Exception", "none", <<"POST flr">>)

MountRoute(b) ==
    \/ MountRejected(b)
    \/ /\ configured
       /\ ~AlreadyMounted(status[b])
       /\ IF os_type[b] = "windows"
          THEN MountWindows(b)
          ELSE MountSecond(b, "none", << >>)
       /\ UNCHANGED <<configured, os_type>>

(***************************************************************************)
(* POST /backups/<id>/unmount                                              *)
(***************************************************************************)
\* the first tracked session of the backup, in dict order, or NoSid
SessionOfBackup(d, b) ==
    LET hits == {k \in 1 .. Len(d) : d[k].backup_id = b}
    IN  IF hits = {} THEN NoSid
        ELSE d[CHOOSE k \in hits : \A m \in hits : k <= m].id

\* mutant: the backup is released whatever unmount_backup returned
StatusAfterUnmountAlwaysAvailable(st, success) == "available"

\* backup.status after the call of unmount_backup
StatusAfterUnmount(st, success) == IF success THEN "available" ELSE st

\* backup.mount_point after the call of unmount_backup
MountPointAfterUnmount(mp, success) == IF success THEN NoMount ELSE mp

UnmountRejected(b, code) ==
    /\ last' = [Op("unmount_route") EXCEPT !.bid = b, !.code = code]
    /\ UNCHANGED <<srv, issued, mount_sessions, configured, status, mount_point, os_type>>

UnmountRoute(b) ==
    LET d == mount_sessions["routes"]
        sid == SessionOfBackup(d, b)
    IN  IF ~configured \/ status[b] # "mounted"
        THEN UnmountRejected(b, 400)
        ELSE IF sid = NoSid
        THEN UnmountRejected(b, 404)
        ELSE \E a \in UnmountAnswers(d, srv, sid) :
             \E res \in {UnmountBackup(d, sid, a.flr, a.di)} :
               /\ mount_sessions' = [mount_sessions EXCEPT !["routes"] = res.dict]
               /\ srv' = Unmounted(srv, sid, res.calls, res.ret)
               /\ status' = [status EXCEPT ![b] = StatusAfterUnmount(status[b], res.ret)]
               /\ mount_point' = [mount_point EXCEPT ![b] =
                                    MountPointAfterUnmount(mount_point[b], res.ret)]
               /\ last' = [Op("unmount_route") EXCEPT
                             !.bid = b, !.sid = sid,
                             !.code = IF res.ret THEN 200 ELSE 500,
                             !.ret = IF res.ret THEN "True" ELSE "False",
                             !.tracked = TRUE, !.contacted = TRUE,
                             !.calls = res.calls, !.remote_ok = res.remote_ok,
                             !.mount_type = Get(d, sid).mount_type]
               /\ UNCHANGED <<issued, configured, os_type>>

(***************************************************************************)
(* Process start: the reconciliation block of main.py.  The routes' client *)
(* does not exist yet; main builds a new client and reconciles it.         *)
(***************************************************************************)
\* the row whose backup_id equals the session's, updated from the session
ApplySession(db, e) ==
    IF e.backup_id \notin BackupIds
    THEN db
    ELSE IF e.state = "Working"
    THEN [status |-> [db.status EXCEPT ![e.backup_id] = "mounted"],
          mount_point |-> [db.mount_point EXCEPT ![e.backup_id] = e.mount_point]]
    ELSE [status |-> [db.status EXCEPT ![e.backup_id] = "available"],
          mount_point |-> [db.mount_point EXCEPT ![e.backup_id] = NoMount]]

RECURSIVE ApplySessions(_, _)
ApplySessions(db, d) ==
    IF d = << >> THEN db ELSE ApplySessions(ApplySession(db, Head(d)), Tail(d))

ActiveBackupIds(d) == {d[k].backup_id : k \in 1 .. Len(d)}

\* SQL "backup_id NOT IN (ids)": a NULL among the ids makes the test unknown
\* for every backup_id that is not listed, and such a row is not selected
NotInSql(b, ids) == b \notin ids /\ None \notin ids

StaleBackups(db, ids) ==
    {b \in BackupIds : db.status[b] = "mounted" /\ NotInSql(b, ids)}

ClearStale(db, stale) ==
    [status |-> [b \in BackupIds |->
                   IF b \in stale THEN "available" ELSE db.status[b]],
     mount_point |-> [b \in BackupIds |->
                        IF b \in stale THEN NoMount ELSE db.mount_point[b]]]

StartupReconciliation(db, d) ==
    LET applied == ApplySessions(db, d)
    IN  ClearStale(applied, StaleBackups(applied, ActiveBackupIds(d)))

\* commit: "ok", or "error" when a query or the commit raises; the block
\* catches the exception and the database keeps what it had
Startup ==
    \E f \in FetchesAnyOrder(srv), commit \in {"ok", "error"} :
    \E got \in {Fetched(srv, f)} :
    \E res \in {ReconcileMountState(EmptyDict, got)} :
    \E db \in {StartupReconciliation([status |-> status, mount_point |-> mount_point],
                                     res.dict)} :
      /\ mount_sessions' = [c \in Clients |-> IF c = "main" THEN res.dict ELSE EmptyDict]
      /\ configured' = FALSE
      /\ status' = IF commit = "ok" THEN db.status ELSE status
      /\ mount_point' = IF commit = "ok" THEN db.mount_point ELSE mount_point
      /\ last' = [Op("startup") EXCEPT
                    !.client = "main", !.contacted = TRUE,
                    !.ret = IF commit = "ok" THEN "ok" ELSE "exception",
                    !.list = got.list,
                    !.before = {b \in BackupIds : status[b] = "mounted"}]
      /\ UNCHANGED <<srv, issued, os_type>>

(***************************************************************************)
(* No extraction job, no execution, no ML job                              *)
(***************************************************************************)
NoJobs ==
    /\ extraction_jobs = << >>
    /\ executions = << >>
    /\ active_jobs = << >>
    /\ threads = << >>
    /\ ml_jobs = << >>

(***************************************************************************)
(* The client on its own: one client object, no database                   *)
(***************************************************************************)
InitClient ==
    /\ srv = << >>
    /\ issued = 0
    /\ mount_sessions = [c \in Clients |-> EmptyDict]
    /\ configured = TRUE
    /\ status = [b \in BackupIds |-> "available"]
    /\ mount_point = [b \in BackupIds |-> NoMount]
    /\ os_type = [b \in BackupIds |-> IF b = "b1" THEN "windows" ELSE "linux"]
    /\ NoJobs
    /\ last = Blank

NextClient ==
    \/ ServerStart /\ UNCHANGED jobVars
    \/ ServerStop /\ UNCHANGED jobVars
    \/ ServerDrop /\ UNCHANGED jobVars
    \/ Reconcile("routes") /\ UNCHANGED jobVars
    \/ ClientMount("routes") /\ UNCHANGED jobVars
    \/ ClientUnmount("routes") /\ UNCHANGED jobVars

SpecClient == InitClient /\ [][NextClient]_vars

(***************************************************************************)
(* The veeam routes: a fresh database, the routes' client, the server      *)
(***************************************************************************)
InitRoute ==
    /\ srv = << >>
    /\ issued = 0
    /\ mount_sessions = [c \in Clients |-> EmptyDict]
    /\ configured = FALSE
    /\ status = [b \in BackupIds |-> "available"]
    /\ mount_point = [b \in BackupIds |-> NoMount]
    /\ os_type = [b \in BackupIds |-> IF b = "b1" THEN "windows" ELSE "linux"]
    /\ NoJobs
    /\ last = Blank

NextRoute ==
    \/ ServerStart /\ UNCHANGED jobVars
    \/ ServerStop /\ UNCHANGED jobVars
    \/ ServerDrop /\ UNCHANGED jobVars
    \/ Configure /\ UNCHANGED jobVars
    \/ \E b \in BackupIds : MountRoute(b) /\ UNCHANGED jobVars
    \/ \E b \in BackupIds : UnmountRoute(b) /\ UNCHANGED jobVars

SpecRoute == InitRoute /\ [][NextRoute]_vars

(***************************************************************************)
(* Process starts: a database left by an earlier run, a server holding any *)
(* sessions                                                                *)
(***************************************************************************)
ServerStates == UNION {[S -> SrvRecsAny] : S \in SUBSET SessionIds}

InitStartup ==
    /\ srv \in ServerStates
    /\ issued = MaxSessions
    /\ mount_sessions = [c \in Clients |-> EmptyDict]
    /\ configured = FALSE
    /\ status \in [BackupIds -> {"available", "mounted"}]
    /\ mount_point = [b \in BackupIds |->
                        IF status[b] = "mounted" THEN TmpPath(b) ELSE NoMount]
    /\ os_type = [b \in BackupIds |-> IF b = "b1" THEN "windows" ELSE "linux"]
    /\ NoJobs
    /\ last = Blank

NextStartup ==
    \/ Startup /\ UNCHANGED jobVars
    \/ ServerStop /\ UNCHANGED jobVars
    \/ ServerDrop /\ UNCHANGED jobVars

SpecStartup == InitStartup /\ [][NextStartup]_vars

(***************************************************************************)
(* Extraction jobs (src/src/services/extraction_job_service.py).           *)
(*                                                                         *)
(* execute_job runs in a request thread: it checks the job, commits an     *)
(* execution record, starts the background thread and only then writes     *)
(* active_jobs[job_id].  The background thread runs concurrently with the  *)
(* rest of the request and with other requests, so the request is two      *)
(* steps (ExecuteJob, TrackActive) and the thread three (BackgroundRun,    *)
(* BackgroundExtract, BackgroundCleanup).                                  *)
(***************************************************************************)
MaxJobs == 2

MaxExecutions == 1

JobIds == 1 .. MaxJobs

ExecutionIds == 1 .. MaxExecutions

JobStatus == {"pending", "running", "completed", "failed", "cancelled", "paused"}

\* `if error_message:` : None and the empty string record nothing
Truthy(msg) == msg # None /\ msg # ""

\* ExtractionJob.set_status
set_status(job, st, error_message) ==
    [job EXCEPT !.status = st,
                !.error_message = IF Truthy(error_message) THEN error_message ELSE @]

\* a row of extraction_jobs as create_job adds it
NewJob(b) == [status |-> "pending", backup_id |-> b, error_message |-> None]

\* a row of extraction_job_executions as execute_job adds it
NewExecution(j) ==
    [job_id |-> j, status |-> "pending", session_id |-> NoSid,
     mount_type |-> None, error_log |-> FALSE]

\* request: where the execute_job call is; pc: where the background thread
\* is; cancelled: cancel_job was applied to this execution
NewThread == [request |-> "tracking", pc |-> "started", cancelled |-> FALSE]

JobExists(db, j) == j \in DOMAIN db

\* mutant: the `if not job` check is gone
IsPendingOrMissing(db, j) == ~JobExists(db, j) \/ db[j].status = "pending"

\* the two checks of execute_job
IsPending(db, j) == JobExists(db, j) /\ db[j].status = "pending"

\* self.active_jobs[job_id] = {...}
Track(a, j, e) == [k \in DOMAIN a \cup {j} |-> IF k = j THEN e ELSE a[k]]

\* if job.id in self.active_jobs: del self.active_jobs[job.id]
Untrack(a, j) == [k \in DOMAIN a \ {j} |-> a[k]]

\* the first tracked mount session of the backup, or nothing
SessionForBackup(d, b) ==
    LET hits == {k \in 1 .. Len(d) : d[k].backup_id = b}
    IN  IF hits = {} THEN << >>
        ELSE << d[CHOOSE k \in hits : \A m \in hits : k <= m] >>

NoSessionMessage == "No active mount session found"

ExtractionMessage == "extraction failed"

\* the except block of _execute_job_background
Failed(db, ex, e, msg) ==
    [jobs |-> [db EXCEPT ![ex[e].job_id] = set_status(@, "failed", msg)],
     execs |-> [ex EXCEPT ![e].status = "failed", ![e].error_log = TRUE]]

\* the end of the try block of _execute_job_background
Completed(db, ex, e) ==
    [jobs |-> [db EXCEPT ![ex[e].job_id] = set_status(@, "completed", None)],
     execs |-> [ex EXCEPT ![e].status = "completed"]]

\* ExtractionJobService.create_job with a configuration that has the required
\* fields or lacks one
CreateJob ==
    \E b \in BackupIds, complete \in BOOLEAN :
      /\ Len(extraction_jobs) < MaxJobs
      /\ IF complete
         THEN /\ extraction_jobs' = Append(extraction_jobs, NewJob(b))
              /\ last' = [Op("create_job") EXCEPT !.job = Len(extraction_jobs) + 1,
                                                 !.bid = b]
         ELSE /\ UNCHANGED extraction_jobs
              /\ last' = [Op("create_job") EXCEPT !.raised = "ValueError", !.bid = b]
      /\ UNCHANGED <<srv, issued, mount_sessions, configured, status, mount_point,
                     os_type, executions, active_jobs, threads, ml_jobs>>

\* execute_job up to thread.start()
ExecuteJob(j) ==
    /\ IF IsPending(extraction_jobs, j)
       THEN /\ Len(executions) < MaxExecutions
            /\ executions' = Append(executions, NewExecution(j))
            /\ threads' = Append(threads, NewThread)
            /\ last' = [Op("execute_job") EXCEPT !.job = j,
                                                  !.exec = Len(executions) + 1]
       ELSE /\ UNCHANGED <<executions, threads>>
            /\ last' = [Op("execute_job") EXCEPT !.job = j, !.raised = "ValueError",
                                                  !.code = 500]
    /\ UNCHANGED <<srv, issued, mount_sessions, configured, status, mount_point,
                   os_type, extraction_jobs, active_jobs, ml_jobs>>

\* execute_job from `self.active_jobs[job_id] = ...` to its return
TrackActive(e) ==
    /\ e \in DOMAIN threads
    /\ threads[e].request = "tracking"
    /\ active_jobs' = Track(active_jobs, executions[e].job_id, e)
    /\ threads' = [threads EXCEPT ![e].request = "returned"]
    /\ last' = [Op("execute_job_return") EXCEPT !.job = executions[e].job_id,
                                                 !.exec = e, !.code = 200]
    /\ UNCHANGED <<srv, issued, mount_sessions, configured, status, mount_point,
                   os_type, extraction_jobs, executions, ml_jobs>>

\* _execute_job_background up to the choice of the extraction level; the
\* except block when no session is found
BackgroundRun(e) ==
    /\ e \in DOMAIN threads
    /\ threads[e].pc = "started"
    /\ \E j \in {executions[e].job_id} :
       \E running \in {[extraction_jobs EXCEPT ![j] = set_status(@, "running", None)]} :
       \E found \in {SessionForBackup(mount_sessions["main"], running[j].backup_id)} :
         IF found = << >>
         THEN \E res \in {Failed(running, executions, e, NoSessionMessage)} :
                /\ extraction_jobs' = res.jobs
                /\ executions' = res.execs
                /\ threads' = [threads EXCEPT ![e].pc = "cleanup"]
                /\ last' = [Op("background_run") EXCEPT !.job = j, !.exec = e,
                                                         !.raised = "ValueError"]
         ELSE /\ extraction_jobs' = running
              /\ executions' = [executions EXCEPT
                                  ![e].status = "running",
                                  ![e].session_id = found[1].id,
                                  ![e].mount_type = found[1].mount_type]
              /\ threads' = [threads EXCEPT ![e].pc = "extracting"]
              /\ last' = [Op("background_run") EXCEPT !.job = j, !.exec = e,
                                                       !.sid = found[1].id]
    /\ UNCHANGED <<srv, issued, mount_sessions, configured, status, mount_point,
                   os_type, active_jobs, ml_jobs>>

ExtractionOutcomes == {"ok", "raised"}

\* the extraction itself, then the end of the try block or the except block
BackgroundExtract(e) ==
    /\ e \in DOMAIN threads
    /\ threads[e].pc = "extracting"
    /\ \E out \in ExtractionOutcomes :
       \E res \in {IF out = "ok"
                   THEN Completed(extraction_jobs, executions, e)
                   ELSE Failed(extraction_jobs, executions, e, ExtractionMessage)} :
         /\ extraction_jobs' = res.jobs
         /\ executions' = res.execs
         /\ last' = [Op("background_extract") EXCEPT
                       !.job = executions[e].job_id, !.exec = e,
                       !.raised = IF out = "ok" THEN "no" ELSE "Exception"]
    /\ threads' = [threads EXCEPT ![e].pc = "cleanup"]
    /\ UNCHANGED <<srv, issued, mount_sessions, configured, status, mount_point,
                   os_type, active_jobs, ml_jobs>>

\* the finally block of _execute_job_background
BackgroundCleanup(e) ==
    /\ e \in DOMAIN threads
    /\ threads[e].pc = "cleanup"
    /\ active_jobs' = Untrack(active_jobs, executions[e].job_id)
    /\ threads' = [threads EXCEPT ![e].pc = "done"]
    /\ last' = [Op("background_cleanup") EXCEPT !.job = executions[e].job_id,
                                                 !.exec = e]
    /\ UNCHANGED <<srv, issued, mount_sessions, configured, status, mount_point,
                   os_type, extraction_jobs, executions, ml_jobs>>

\* ExtractionJobService.cancel_job and the answer of its route
CancelJob(j) ==
    /\ IF j \in DOMAIN active_jobs
       THEN \E e \in {active_jobs[j]} :
              /\ extraction_jobs' = [extraction_jobs EXCEPT
                                       ![j] = set_status(@, "cancelled", None)]
              /\ executions' = [executions EXCEPT ![e].status = "cancelled"]
              /\ active_jobs' = Untrack(active_jobs, j)
              /\ threads' = [threads EXCEPT ![e].cancelled = TRUE]
              /\ last' = [Op("cancel_job") EXCEPT !.job = j, !.exec = e,
                                                   !.code = 200]
       ELSE /\ UNCHANGED <<extraction_jobs, executions, active_jobs, threads>>
            /\ last' = [Op("cancel_job") EXCEPT !.job = j, !.code = 404]
    /\ UNCHANGED <<srv, issued, mount_sessions, configured, status, mount_point,
                   os_type, ml_jobs>>

(***************************************************************************)
(* The extraction service after start-up: main.py's client holds what its  *)
(* reconciliation found on the server                                      *)
(***************************************************************************)
\* the server holds one FLR session, of backup b1; b2 has none
ServerAtStart ==
    WithSession(<< >>, 1, [backupId |-> "b1", state |-> "Working",
                           type |-> "FileLevelRestore"])

InitJobs ==
    /\ srv = ServerAtStart
    /\ issued = Cardinality(DOMAIN srv)
    /\ mount_sessions =
         [c \in Clients |->
            IF c = "main"
            THEN ReconcileMountState(EmptyDict,
                                     GetActiveSessions(srv, "ok", Identity)).dict
            ELSE EmptyDict]
    /\ configured = FALSE
    /\ status = [b \in BackupIds |-> "available"]
    /\ mount_point = [b \in BackupIds |-> NoMount]
    /\ os_type = [b \in BackupIds |-> IF b = "b1" THEN "windows" ELSE "linux"]
    /\ NoJobs
    /\ last = Blank

NextJobs ==
    \/ CreateJob
    \/ \E j \in JobIds : ExecuteJob(j)
    \/ \E e \in ExecutionIds : TrackActive(e)
    \/ \E e \in ExecutionIds : BackgroundRun(e)
    \/ \E e \in ExecutionIds : BackgroundExtract(e)
    \/ \E e \in ExecutionIds : BackgroundCleanup(e)
    \/ \E j \in JobIds : CancelJob(j)

SpecJobs == InitJobs /\ [][NextJobs]_vars

(***************************************************************************)
(* ML jobs: create_ml_job (src/src/routes/veeam_routes.py) and the task    *)
(* types of MLProcessingService (src/src/services/ml_processor.py)         *)
(***************************************************************************)
MaxMlJobs == 2

\* the keys of MLProcessingService.processors
SupportedTaskTypes ==
    {"classification", "regression", "clustering", "anomaly_detection",
     "feature_extraction"}

\* process_ml_task: `if task_type not in self.processors: raise`
IsSupported(task_type) == task_type \in SupportedTaskTypes

\* required_fields, in the order the route checks them
RequiredFields == <<"job_name", "ml_algorithm", "backup_id">>

\* the first required field the body lacks, or None
FirstMissing(present) ==
    LET missing == {k \in 1 .. Len(RequiredFields) : RequiredFields[k] \notin present}
    IN  IF missing = {} THEN None
        ELSE RequiredFields[CHOOSE k \in missing : \A m \in missing : k <= m]

\* the algorithms a request may name: two supported ones and the one of
\* test_create_ml_job_invalid_algorithm
Algorithms == {"classification", "feature_extraction", "invalid_algorithm"}

\* the backups a request may name: the rows of veeam_backups and an unknown one
RequestedBackups == BackupIds \cup {"unknown"}

\* MLJob(...) as the route adds it
NewMlJob(alg, b) == [ml_algorithm |-> alg, backup_id |-> b, status |-> "pending"]

\* the answer of create_ml_job: status code and whether a row is added
CreateMlJobAnswer(present, b) ==
    CASE FirstMissing(present) # None -> 400
      [] b \notin BackupIds -> 404
      [] status[b] # "mounted" -> 400
      [] OTHER -> 201

\* POST /ml-jobs
CreateMlJob ==
    \E present \in SUBSET Range(RequiredFields), alg \in Algorithms,
       b \in RequestedBackups :
      \E code \in {CreateMlJobAnswer(present, b)} :
        /\ IF code = 201
           THEN /\ Len(ml_jobs) < MaxMlJobs
                /\ ml_jobs' = Append(ml_jobs, NewMlJob(alg, b))
           ELSE UNCHANGED ml_jobs
        /\ last' = [Op("create_ml_job") EXCEPT
                      !.code = code,
                      !.bid = IF "backup_id" \in present THEN b ELSE None,
                      !.algorithm = IF "ml_algorithm" \in present THEN alg ELSE None,
                      !.job = IF code = 201 THEN Len(ml_jobs) + 1 ELSE 0]
        /\ UNCHANGED <<srv, issued, mount_sessions, configured, status, mount_point,
                       os_type, extraction_jobs, executions, active_jobs, threads>>

(***************************************************************************)
(* The ML routes over a database in which any backup may be mounted        *)
(***************************************************************************)
InitMl ==
    /\ srv = << >>
    /\ issued = 0
    /\ mount_sessions = [c \in Clients |-> EmptyDict]
    /\ configured = FALSE
    /\ status \in [BackupIds -> {"available", "mounted"}]
    /\ mount_point = [b \in BackupIds |->
                        IF status[b] = "mounted" THEN TmpPath(b) ELSE NoMount]
    /\ os_type = [b \in BackupIds |-> IF b = "b1" THEN "windows" ELSE "linux"]
    /\ NoJobs
    /\ last = Blank

NextMl == CreateMlJob

SpecMl == InitMl /\ [][NextMl]_vars

(***************************************************************************)
(* Properties                                                              *)
(***************************************************************************)
RoutesDict == mount_sessions["routes"]

MainDict == mount_sessions["main"]

\* C1: after reconcile_mount_state returns a result without an 'error' key,
\* the tracked session ids are exactly the ids of the session list that call
\* fetched, and every listed session is tracked with the state, mount_point
\* and mount_type of the list.
C1_ReconcileTracksFetchedList ==
    (last.op = "reconcile" /\ last.ret = "ok") =>
        /\ Keys(RoutesDict) = {last.list[k].id : k \in 1 .. Len(last.list)}
        /\ \A k \in 1 .. Len(last.list) :
             \E j \in 1 .. Len(RoutesDict) :
               /\ RoutesDict[j].id = last.list[k].id
               /\ RoutesDict[j].state = last.list[k].state
               /\ RoutesDict[j].mount_point = last.list[k].mount_point
               /\ RoutesDict[j].mount_type = last.list[k].mount_type

\* C1 witness: a reconcile that dropped an orphan, refreshed a session it
\* already tracked and kept a non-empty list
C1_Witness ==
    /\ last.op = "reconcile"
    /\ last.ret = "ok"
    /\ last.list # << >>
    /\ \E i \in last.had : i \notin Keys(RoutesDict)
    /\ \E i \in last.had : i \in Keys(RoutesDict)

\* C2: when the server has an FLR session in state Working for the backup,
\* mount_backup sends no create-session request (it records that session in
\* mount_sessions and returns its id instead); it creates a session only
\* when the server has none.
C2_NoCreateWhenSessionExists ==
    (last.op = "mount_backup" /\ last.had_working_flr) =>
        "POST flr" \notin Range(last.calls)

\* C3: for a tracked session id, unmount_backup returns True exactly when the
\* remote unmount request succeeded; on True that session and no other has
\* left mount_sessions, on False mount_sessions is unchanged; it returns
\* True or False and never raises.
C3_UnmountTracked ==
    [][(last'.op = "unmount_backup" /\ Has(RoutesDict, last'.sid)) =>
          /\ last'.ret \in {"True", "False"}
          /\ (last'.ret = "True") <=> last'.remote_ok
          /\ (last'.ret = "True") =>
                /\ Keys(RoutesDict') = Keys(RoutesDict) \ {last'.sid}
                /\ \A j \in 1 .. Len(RoutesDict') : RoutesDict'[j] \in Range(RoutesDict)
          /\ (last'.ret = "False") => RoutesDict' = RoutesDict]_vars

\* C3 witness: a tracked session was unmounted while another stayed tracked
C3_Witness ==
    /\ last.op = "unmount_backup"
    /\ last.tracked
    /\ last.ret = "True"
    /\ last.remote_ok
    /\ ~Has(RoutesDict, last.sid)
    /\ RoutesDict # << >>

\* C4: unmount_backup calls the unmount API of the session's recorded mount
\* mechanism: only the FLR unmount for a tracked 'FLR' session, only the Data
\* Integration unpublish for any other tracked session; for an untracked id
\* it tries the FLR unmount first, the unpublish only if that call failed,
\* and leaves mount_sessions unchanged.
C4_UnmountUsesRecordedMechanism ==
    [][(last'.op = "unmount_backup") =>
          IF Has(RoutesDict, last'.sid)
          THEN IF Get(RoutesDict, last'.sid).mount_type = "FLR"
               THEN last'.calls = <<"POST flr unmount">>
               ELSE last'.calls = <<"POST di unpublish">>
          ELSE /\ last'.calls \in {<<"POST flr unmount">>,
                                   <<"POST flr unmount", "POST di unpublish">>}
               /\ "POST di unpublish" \in Range(last'.calls) => last'.flr = "failed"
               /\ RoutesDict' = RoutesDict]_vars

\* C4 witness: an untracked Data Integration session was unpublished after
\* the FLR unmount had failed
C4_Witness ==
    /\ last.op = "unmount_backup"
    /\ ~last.tracked
    /\ last.calls = <<"POST flr unmount", "POST di unpublish">>
    /\ last.flr = "failed"
    /\ last.ret = "True"

\* C5: for a windows backup the mount route attempts the FLR mount first and
\* the second mechanism only after the FLR attempt raised VeeamAPIError; if
\* both attempts fail it answers 500 and the backup's status and mount_point
\* are unchanged.
C5_WindowsFlrFirstThenFallback ==
    [][(/\ last'.op = "mount_route"
        /\ last'.code # 400
        /\ os_type[last'.bid] = "windows") =>
          /\ last'.flr # "none"
          /\ last'.calls # << >>
          /\ last'.calls[1] = "POST flr"
          /\ last'.second # "none" => last'.flr = "VeeamAPIError"
          /\ (last'.flr = "VeeamAPIError" /\ last'.second = "VeeamAPIError") =>
                /\ last'.code = 500
                /\ status'[last'.bid] = status[last'.bid]
                /\ mount_point'[last'.bid] = mount_point[last'.bid]
                /\ status'[last'.bid] # "mounted"]_vars

\* C5 witness: both mechanisms failed for the windows backup
C5_Witness ==
    /\ last.op = "mount_route"
    /\ os_type[last.bid] = "windows"
    /\ last.flr = "VeeamAPIError"
    /\ last.second = "VeeamAPIError"
    /\ last.code = 500

\* C6: a mount request for a backup whose status is 'mounted' is answered 400
\* without a request to the server and without a change to the backup rows
\* or to mount_sessions; a backup leaves 'mounted' only by a successful
\* unmount request for it, so it gets no second session from the mount route
\* in between.
C6_MountedBackupNotMountedAgain ==
    [][/\ (last'.op = "mount_route" /\ status[last'.bid] = "mounted") =>
             /\ last'.code = 400
             /\ ~last'.contacted
             /\ UNCHANGED <<srv, issued, mount_sessions, status, mount_point>>
       /\ (last'.op = "mount_route" /\ last'.code = 200) =>
             /\ status[last'.bid] # "mounted"
             /\ status'[last'.bid] = "mounted"
       /\ \A b \in BackupIds :
             (status[b] = "mounted" /\ status'[b] # "mounted") =>
                /\ last'.op = "unmount_route"
                /\ last'.bid = b
                /\ last'.code = 200
                /\ last'.ret = "True"]_vars

\* C6 witness: a mount request for a mounted backup whose session is tracked
C6_Witness ==
    /\ last.op = "mount_route"
    /\ last.code = 400
    /\ configured
    /\ status[last.bid] = "mounted"
    /\ SessionOfBackup(RoutesDict, last.bid) # NoSid

\* C7: the unmount route sets a backup to 'available' with mount_point
\* cleared only when it was 'mounted', a tracked session of its backup_id was
\* found and unmount_backup returned True; otherwise (not mounted: 400, no
\* tracked session: 404, unmount failed: 500) status and mount_point are
\* unchanged.
C7_UnmountRouteOutcome ==
    [][\A b \in BackupIds : (last'.op = "unmount_route" /\ last'.bid = b) =>
          LET found == \E j \in 1 .. Len(RoutesDict) : RoutesDict[j].backup_id = b
              kept == status'[b] = status[b] /\ mount_point'[b] = mount_point[b]
          IN  /\ status[b] # "mounted" => (last'.code = 400 /\ kept)
              /\ (configured /\ status[b] = "mounted" /\ ~found) =>
                    (last'.code = 404 /\ kept)
              /\ (configured /\ status[b] = "mounted" /\ found /\ last'.ret # "True") =>
                    (last'.code = 500 /\ kept)
              /\ (configured /\ status[b] = "mounted" /\ found /\ last'.ret = "True") =>
                    /\ last'.code = 200
                    /\ status'[b] = "available"
                    /\ mount_point'[b] = NoMount
              /\ \A o \in BackupIds \ {b} :
                    status'[o] = status[o] /\ mount_point'[o] = mount_point[o]]_vars

\* C7 witness: the remote unmount failed and the backup stayed mounted
C7_Witness ==
    /\ last.op = "unmount_route"
    /\ last.code = 500
    /\ last.tracked
    /\ status[last.bid] = "mounted"
    /\ mount_point[last.bid] # NoMount

\* C8: after a successful mount through the mount route, the backup's
\* mount_point holds the id of the session the client tracks for that backup.
C8_MountPointIsTrackedSessionId ==
    (last.op = "mount_route" /\ last.code = 200) =>
        \E j \in 1 .. Len(RoutesDict) :
          /\ RoutesDict[j].backup_id = last.bid
          /\ mount_point[last.bid] = SessionIdPath(RoutesDict[j].id)

\* C9: the mount_type the mount route reports for a successful mount equals
\* the mount_type recorded in mount_sessions for the session that mount
\* created.
C9_ReportedMountTypeIsRecorded ==
    (last.op = "mount_route" /\ last.code = 200 /\ Has(RoutesDict, last.sid)) =>
        Get(RoutesDict, last.sid).mount_type = last.mount_type

\* C10: after the startup reconciliation block completes without exception,
\* every backup whose status is 'mounted' has a session in the client's
\* mount_sessions with its backup_id and state 'Working', and every backup
\* that was 'mounted' and has no session in the reconciled set is 'available'
\* with mount_point cleared.
C10_StartupReconciled ==
    (last.op = "startup" /\ last.ret = "ok") =>
        /\ \A b \in BackupIds : status[b] = "mounted" =>
             \E j \in 1 .. Len(MainDict) :
               MainDict[j].backup_id = b /\ MainDict[j].state = "Working"
        /\ \A b \in last.before :
             (\A j \in 1 .. Len(MainDict) : MainDict[j].backup_id # b) =>
                (status[b] = "available" /\ mount_point[b] = NoMount)

(***************************************************************************)
(* C11: execute_job starts an execution only for an existing job whose     *)
(* status is pending.  For a missing job or a job in any other status it   *)
(* raises ValueError and leaves the execution records, the threads and     *)
(* active_jobs as they were; an execution record and a thread appear only  *)
(* in an execute_job step for a job that was pending, and active_jobs      *)
(* gains an entry only when such a call goes on after starting its thread. *)
(***************************************************************************)
C11_ExecuteOnlyPending ==
    [][/\ (/\ last'.op = "execute_job"
           /\ ~(/\ last'.job \in DOMAIN extraction_jobs
                /\ extraction_jobs[last'.job].status = "pending"))
          => /\ last'.raised = "ValueError"
             /\ UNCHANGED <<executions, threads, active_jobs, extraction_jobs>>
       /\ (Len(executions') > Len(executions) \/ Len(threads') > Len(threads))
          => /\ last'.op = "execute_job"
             /\ last'.raised = "no"
             /\ last'.job \in DOMAIN extraction_jobs
             /\ extraction_jobs[last'.job].status = "pending"
             /\ executions' = Append(executions, NewExecution(last'.job))
             /\ Len(threads') = Len(executions')
       /\ (\E j \in DOMAIN active_jobs' :
              j \notin DOMAIN active_jobs \/ active_jobs'[j] # active_jobs[j])
          => /\ last'.op = "execute_job_return"
             /\ threads[last'.exec].request = "tracking"
             /\ executions[last'.exec].job_id = last'.job
             /\ active_jobs' = Track(active_jobs, last'.job, last'.exec)
      ]_vars

\* execute_job has just refused a job that exists and already ran
C11_Witness ==
    /\ last.op = "execute_job"
    /\ last.raised = "ValueError"
    /\ last.job \in DOMAIN extraction_jobs
    /\ extraction_jobs[last.job].status \in {"running", "completed", "failed", "cancelled"}
    /\ executions # << >>

(***************************************************************************)
(* C12: an execution that was started, was not cancelled and whose thread  *)
(* and request have both finished leaves its job completed or failed, the  *)
(* execution record in the status of the job, and the job out of           *)
(* active_jobs.  Stated for a job that was executed once, so that no other *)
(* execution accounts for the job's status or its active_jobs entry.       *)
(***************************************************************************)
ExecutedOnce(e) ==
    \A f \in DOMAIN executions : executions[f].job_id = executions[e].job_id => f = e

C12_FinishedExecutionSettled ==
    \A e \in DOMAIN threads :
        (/\ threads[e].pc = "done"
         /\ threads[e].request = "returned"
         /\ ~threads[e].cancelled
         /\ ExecutedOnce(e))
        => /\ extraction_jobs[executions[e].job_id].status \in {"completed", "failed"}
           /\ executions[e].status = extraction_jobs[executions[e].job_id].status
           /\ executions[e].job_id \notin DOMAIN active_jobs

(***************************************************************************)
(* C13: a request to create an ML job whose algorithm is not a supported   *)
(* task type is never answered 201 and no ML job row holds such an         *)
(* algorithm.                                                              *)
(***************************************************************************)
C13_InvalidAlgorithmRejected ==
    /\ (last.op = "create_ml_job" /\ ~IsSupported(last.algorithm)) => last.code # 201
    /\ \A k \in DOMAIN ml_jobs : IsSupported(ml_jobs[k].ml_algorithm)

====
